---- MODULE Spec2Model ----
(***************************************************************************)
(* Model of osc_debug/Repl.py: the command shell (cmd2.Cmd subclass) that  *)
(* owns a python-osc Dispatcher and a ThreadingOSCUDPServer.               *)
(*                                                                         *)
(* The dispatcher's _map is a collections.defaultdict(list): reading       *)
(* _map[address] inserts the key with an empty list when it is missing.    *)
(* The server is a socketserver.UDPServer: it binds in its constructor,    *)
(* serve_forever() loops while the shutdown flag is clear, and shutdown()  *)
(* raises the flag and waits for the loop to report that it ended.         *)
(***************************************************************************)
EXTENDS Integers, Sequences, FiniteSets, TLC

VARIABLES
    pc,                 \* where the program is: boot, prompt, serving, crashed, quit
    port,               \* Repl.__port
    host,               \* Repl.__host
    map,                \* Repl.__dispatcher._map, in dict (insertion) order
    sock,               \* the socket owned by Repl.__server
    shutdown_request,   \* BaseServer.__shutdown_request of Repl.__server
    is_shut_down,       \* BaseServer.__is_shut_down (an Event) of Repl.__server
    strictUnmap,        \* whether this interpreter's list.remove message is the one unmap re-raises on
    out,                \* the lines the last command wrote
    raised,             \* the exception the last command let escape to the shell
    last,               \* the last command: name, arguments, registry before it
    prev,               \* the command before it
    sent,               \* the datagrams the last command put on the wire
    rcvbuf,             \* datagrams waiting in the server socket's receive buffer
    workers,            \* request threads started by the server and not finished
    printed,            \* the messages the sink has printed, in print order
    nextSeq,            \* the number the sender gives its next datagram
    handled             \* the last dispatch a request thread made

vars == <<pc, port, host, map, sock, shutdown_request, is_shut_down,
          strictUnmap, out, raised, last, prev,
          sent, rcvbuf, workers, printed, nextSeq, handled>>

----------------------------------------------------------------------------
(* Bounds *)

NumAddr == 2
MaxBatch == 2
MaxSend == 3
MaxMsgs == 2

(* Program constants *)

DefaultPort == 5005
PortMin == 4096
PortMax == 65535
DefaultHost == "127.0.0.1"

AddrNames == <<"/a", "/*", "/b", "/c", "/d">>
Addresses == {AddrNames[i] : i \in 1..NumAddr}

\* The one handler the shell ever builds: Handler(self.__format_osc_message, [], False).
Sink == "sink"

Hosts == {"0.0.0.0", "bogus"}

\* Argument tokens given to PORT, as the characters typed.
PortTokens ==
    { <<"4","0","9","5">>, <<"4","0","9","6">>, <<"6","5","5","3","5">>,
      <<"6","5","5","3","6">>, <<"9","0","0","0">>, <<"+","9","0","0","0">>,
      <<"-","9","0","0","0">>, <<"9","_","0","0","0">>, <<"9","_","_","0">>,
      <<"0","4","0","9","6">>, <<" ","9","0","0","0">>, <<"a","b","c">>,
      <<"9","0","a">>, <<>>, <<"_","9","0","0","0">> }

----------------------------------------------------------------------------
(* Output lines *)

Line(k, a, n) == [k |-> k, a |-> a, n |-> n]

\* The program state a command starts from.
State(m, p, h) == [map |-> m, port |-> p, host |-> h]

\* No request thread has dispatched anything yet.
NoDispatch == [seq |-> 0, addr |-> "", calls |-> 0, map |-> <<>>, serving |-> FALSE]

NoCmd == [cmd |-> "NONE", args |-> <<>>, pre |-> State(<<>>, DefaultPort, DefaultHost)]

RECURSIVE SeqOfLen(_, _)
SeqOfLen(S, n) ==
    IF n = 0 THEN {<<>>}
    ELSE {Append(s, x) : s \in SeqOfLen(S, n - 1), x \in S}

Batches == UNION {SeqOfLen(Addresses, n) : n \in 1..MaxBatch}

----------------------------------------------------------------------------
(* The dispatcher's _map: a defaultdict(list), kept as the sequence of its   *)
(* items in insertion order.                                                 *)

Item(a, hs) == [addr |-> a, handlers |-> hs]

Keys(m) == {m[i].addr : i \in DOMAIN m}

\* address in _map
HasKey(m, a) == a \in Keys(m)

IndexOf(m, a) == CHOOSE i \in DOMAIN m : m[i].addr = a

\* The handler list stored under a, without touching the dict.
HandlersOf(m, a) == IF HasKey(m, a) THEN m[IndexOf(m, a)].handlers ELSE <<>>

\* _map[a] on a defaultdict(list): a missing key is inserted with [].
Touch(m, a) == IF HasKey(m, a) THEN m ELSE Append(m, Item(a, <<>>))

SetHandlers(m, a, hs) == [m EXCEPT ![IndexOf(m, a)].handlers = hs]

InSeq(s, x) == \E i \in DOMAIN s : s[i] = x

FirstIndex(s, x) == CHOOSE i \in DOMAIN s : s[i] = x /\ \A j \in 1..(i - 1) : s[j] # x

\* list.remove(x) when x is in the list: the first equal element goes.
ListRemove(s, x) ==
    LET i == FirstIndex(s, x)
    IN  SubSeq(s, 1, i - 1) \o SubSeq(s, i + 1, Len(s))

\* A map() that registers nothing.
DispatcherMapDropped(m, a, h) == m

\* Dispatcher.map(address, handler): self._map[address].append(Handler(handler, [], False))
DispatcherMap(m, a, h) ==
    LET t == Touch(m, a)
    IN  SetHandlers(t, a, Append(HandlersOf(t, a), h))

\* Dispatcher.unmap(address, handler): self._map[address].remove(handler).
\* found = FALSE is list.remove raising ValueError("... x not in list").
DispatcherUnmap(m, a, h) ==
    LET t == Touch(m, a)
    IN  IF InSeq(HandlersOf(t, a), h)
        THEN [map |-> SetHandlers(t, a, ListRemove(HandlersOf(t, a), h)), found |-> TRUE]
        ELSE [map |-> t, found |-> FALSE]

----------------------------------------------------------------------------
(* Repl.__add_dispatcher_address *)

\* One pass of the for loop, from position i; st carries the map and the output.
RECURSIVE AddFrom(_, _, _)
AddFrom(st, addresses, i) ==
    IF i > Len(addresses) THEN st
    ELSE LET a == addresses[i]
         IN  IF HasKey(st.map, a)
             THEN AddFrom([st EXCEPT !.out = Append(@, Line("InUse", a, 0))], addresses, i + 1)
             ELSE AddFrom([st EXCEPT !.map = DispatcherMap(@, a, Sink)], addresses, i + 1)

\* The loop without its "already in use" test: every address is mapped again.
RECURSIVE MapEvery(_, _, _)
MapEvery(m, addresses, i) ==
    IF i > Len(addresses) THEN m
    ELSE MapEvery(DispatcherMap(m, addresses[i], Sink), addresses, i + 1)

AddAddressesUnchecked(m, addresses) == [map |-> MapEvery(m, addresses, 1), out |-> <<>>]

AddAddresses(m, addresses) == AddFrom([map |-> m, out |-> <<>>], addresses, 1)

(* Repl.__remove_dispatcher_address *)

\* The ValueError of unmap leaves the loop and the command (err = TRUE) when the
\* interpreter's message is the one unmap compares with; otherwise unmap swallows it.
RECURSIVE RemoveFrom(_, _, _, _)
RemoveFrom(st, addresses, i, strict) ==
    IF i > Len(addresses) THEN st
    ELSE LET r == DispatcherUnmap(st.map, addresses[i], Sink)
         IN  IF ~r.found /\ strict
             THEN [map |-> r.map, err |-> TRUE]
             ELSE RemoveFrom([st EXCEPT !.map = r.map], addresses, i + 1, strict)

RemoveAddresses(m, addresses, strict) ==
    RemoveFrom([map |-> m, err |-> FALSE], addresses, 1, strict)

(* Repl.__remove_all_dispatcher_addresses *)

\* for handler in handlers: unmap(address, handler) -- the list iterator keeps an
\* index into the list that the body shortens.
RECURSIVE UnmapWhileIterating(_, _, _)
UnmapWhileIterating(m, a, i) ==
    IF i > Len(HandlersOf(m, a)) THEN m
    ELSE UnmapWhileIterating(DispatcherUnmap(m, a, HandlersOf(m, a)[i]).map, a, i + 1)

\* for address, handlers in _map.items(): the keys never change during the loop.
RECURSIVE RemoveAllFrom(_, _)
RemoveAllFrom(m, k) ==
    IF k > Len(m) THEN m
    ELSE RemoveAllFrom(UnmapWhileIterating(m, m[k].addr, 1), k + 1)

RemoveAllAddresses(m) == RemoveAllFrom(m, 1)

(* do_server, LIST branch *)

ListOutput(m) ==
    IF Len(m) = 0
    THEN <<Line("NoHandlers", "", 0)>>
    ELSE [i \in 1..Len(m) |-> Line("Address", m[i].addr, 0)]

----------------------------------------------------------------------------
(* int(args[0]) of do_port: Python's int() on a str *)

DigitValue ==
    [c \in {"0","1","2","3","4","5","6","7","8","9"} |->
        CASE c = "0" -> 0 [] c = "1" -> 1 [] c = "2" -> 2 [] c = "3" -> 3
          [] c = "4" -> 4 [] c = "5" -> 5 [] c = "6" -> 6 [] c = "7" -> 7
          [] c = "8" -> 8 [] c = "9" -> 9]

IsDigit(c) == c \in DOMAIN DigitValue

RECURSIVE StripLeft(_)
StripLeft(s) == IF s # <<>> /\ Head(s) = " " THEN StripLeft(Tail(s)) ELSE s

RECURSIVE StripRight(_)
StripRight(s) ==
    IF s # <<>> /\ s[Len(s)] = " " THEN StripRight(SubSeq(s, 1, Len(s) - 1)) ELSE s

\* Digits, with single underscores allowed between two digits only.
WellFormedDigits(d) ==
    /\ d # <<>>
    /\ \A i \in DOMAIN d : IsDigit(d[i]) \/ d[i] = "_"
    /\ \A i \in DOMAIN d :
          d[i] = "_" => /\ i > 1 /\ i < Len(d)
                        /\ IsDigit(d[i - 1]) /\ IsDigit(d[i + 1])

RECURSIVE DigitsValue(_, _)
DigitsValue(d, acc) ==
    IF d = <<>> THEN acc
    ELSE IF Head(d) = "_" THEN DigitsValue(Tail(d), acc)
    ELSE DigitsValue(Tail(d), 10 * acc + DigitValue[Head(d)])

\* ok = FALSE is int() raising ValueError.
PyInt(tok) ==
    LET s    == StripRight(StripLeft(tok))
        neg  == s # <<>> /\ Head(s) = "-"
        body == IF s # <<>> /\ Head(s) \in {"+", "-"} THEN Tail(s) ELSE s
    IN  IF WellFormedDigits(body)
        THEN [ok |-> TRUE,
              val |-> IF neg THEN 0 - DigitsValue(body, 0) ELSE DigitsValue(body, 0)]
        ELSE [ok |-> FALSE, val |-> 0]

\* The range test with its lower bound excluded.
OutOfRangeExclusive(n) == n <= PortMin \/ n > PortMax

\* port < self.__port_range[0] or port > self.__port_range[1]
OutOfRange(n) == n < PortMin \/ n > PortMax

----------------------------------------------------------------------------
(* The server object: socketserver.UDPServer behind ThreadingOSCUDPServer *)

NoSocket == [open |-> FALSE, host |-> "", port |-> 0]

\* UDPServer.__init__(server_address, ...): server_bind() on the address given.
BoundSocket(h, p) == [open |-> TRUE, host |-> h, port |-> p]

\* The address the constructor of __init__ is given: (self.__host, self.__port).
ServerAddress(h, p) == BoundSocket(h, p)

\* Repl.__format_server_info
ServerInfo(h, p) == Line("Starting", h, p)

----------------------------------------------------------------------------
Init ==
    /\ pc = "boot"
    /\ port = DefaultPort
    /\ host = DefaultHost
    /\ map = <<>>
    /\ sock = NoSocket
    /\ shutdown_request = FALSE
    /\ is_shut_down = FALSE
    /\ strictUnmap \in BOOLEAN
    /\ out = <<>>
    /\ raised = "none"
    /\ last = NoCmd
    /\ prev = NoCmd
    /\ sent = <<>>
    /\ rcvbuf = <<>>
    /\ workers = {}
    /\ printed = <<>>
    /\ nextSeq = 1
    /\ handled = NoDispatch

Cmd(c, args) == [cmd |-> c, args |-> args, pre |-> State(map, port, host)]

\* Bookkeeping shared by every command read at the prompt.
Record(c, args) == last' = Cmd(c, args)

ConfigUnchanged == UNCHANGED <<port, host>>
NetUnchanged == UNCHANGED <<rcvbuf, workers, printed, nextSeq, handled>>

\* A command that builds no client sends nothing.
NoSend == sent' = <<>>
ServerUnchanged == UNCHANGED <<sock, shutdown_request, is_shut_down, strictUnmap>>

\* Repl.__init__: the dispatcher is created and the server is constructed, which
\* binds its socket. A bind that fails raises OSError out of the constructor.
Construct ==
    /\ pc = "boot"
    /\ \E bindOk \in BOOLEAN :
          IF bindOk
          THEN /\ sock' = ServerAddress(host, port)
               /\ pc' = "prompt"
               /\ raised' = "none"
          ELSE /\ sock' = NoSocket
               /\ pc' = "crashed"
               /\ raised' = "OSError"
    /\ map' = <<>>
    /\ UNCHANGED <<port, host, shutdown_request, is_shut_down, strictUnmap, out, last>>
    /\ NetUnchanged
    /\ UNCHANGED sent

\* do_port
DoPort(args) ==
    /\ pc = "prompt"
    /\ Record("PORT", args)
    /\ raised' = "none"
    /\ IF Len(args) < 1
       THEN /\ out' = <<Line("Port", "", port)>>
            /\ port' = port
       ELSE LET r == PyInt(args[1])
            IN  IF ~r.ok
                THEN /\ out' = <<Line("PortNotInteger", "", 0)>>
                     /\ port' = port
                ELSE IF OutOfRange(r.val)
                THEN /\ out' = <<Line("InvalidPort", "", 0)>>
                     /\ port' = port
                ELSE /\ port' = r.val
                     /\ out' = <<Line("SetPort", "", r.val)>>
    /\ UNCHANGED <<pc, host, map>>
    /\ ServerUnchanged
    /\ NetUnchanged
    /\ NoSend

\* A do_host that keeps the old host unless the new one looks like an address.
NewHostValidated(cur, arg) == IF arg = "bogus" THEN cur ELSE arg

\* host = args[0]; self.__host = host
NewHost(cur, arg) == arg

\* do_host
DoHost(args) ==
    /\ pc = "prompt"
    /\ Record("HOST", args)
    /\ raised' = "none"
    /\ IF Len(args) < 1
       THEN /\ out' = <<Line("Host", host, 0)>>
            /\ host' = host
       ELSE /\ host' = NewHost(host, args[1])
            /\ out' = <<Line("SetHost", args[1], 0)>>
    /\ UNCHANGED <<pc, port, map>>
    /\ ServerUnchanged
    /\ NetUnchanged
    /\ NoSend

\* do_quit
DoQuit ==
    /\ pc = "prompt"
    /\ Record("QUIT", <<>>)
    /\ raised' = "none"
    /\ out' = <<Line("Quitting", "", 0)>>
    /\ pc' = "quit"
    /\ UNCHANGED <<map>>
    /\ ConfigUnchanged
    /\ ServerUnchanged
    /\ NetUnchanged
    /\ NoSend

----------------------------------------------------------------------------
(* do_server *)

\* SERVER with no sub-command
ServerUsage ==
    /\ pc = "prompt"
    /\ Record("SERVER", <<>>)
    /\ raised' = "none"
    /\ out' = <<Line("Usage", "SERVER", 0)>>
    /\ UNCHANGED <<pc, map>>
    /\ ConfigUnchanged
    /\ ServerUnchanged
    /\ NetUnchanged
    /\ NoSend

\* SERVER ADD with no address
ServerAddUsage ==
    /\ pc = "prompt"
    /\ Record("ADD", <<>>)
    /\ raised' = "none"
    /\ out' = <<Line("Usage", "SERVER ADD", 0)>>
    /\ UNCHANGED <<pc, map>>
    /\ ConfigUnchanged
    /\ ServerUnchanged
    /\ NetUnchanged
    /\ NoSend

\* SERVER ADD addresses
ServerAdd(addresses) ==
    /\ pc = "prompt"
    /\ Record("ADD", addresses)
    /\ raised' = "none"
    /\ LET r == AddAddresses(map, addresses)
       IN  /\ map' = r.map
           /\ out' = r.out
    /\ UNCHANGED pc
    /\ ConfigUnchanged
    /\ ServerUnchanged
    /\ NetUnchanged
    /\ NoSend

\* SERVER REMOVE addresses. An exception that leaves the command is caught and
\* printed by the shell (cmd2), which then reads the next command.
ServerRemove(addresses) ==
    /\ pc = "prompt"
    /\ Record("REMOVE", addresses)
    /\ LET r == RemoveAddresses(map, addresses, strictUnmap)
       IN  /\ map' = r.map
           /\ raised' = IF r.err THEN "ValueError" ELSE "none"
           /\ out' = IF r.err THEN <<Line("Exception", "ValueError", 0)>> ELSE <<>>
    /\ UNCHANGED pc
    /\ ConfigUnchanged
    /\ ServerUnchanged
    /\ NetUnchanged
    /\ NoSend

EndOfInput == "EOF"
Answers == {"y", "Y", "n", "", EndOfInput}

\* str.lower() on the answers above
Lower(ans) == IF ans = "Y" THEN "y" ELSE ans

\* Whether the answer read by input() confirms the removal.
Confirms(ans) == ans # EndOfInput /\ Lower(ans) = "y"

\* SERVER REMOVE with no address: the prompt, then __remove_all_dispatcher_addresses
\* on "y"; unless input() raised EOFError the branch goes on to
\* __remove_dispatcher_address(args[1:]) with the empty list.
ServerRemoveAll(ans) ==
    /\ pc = "prompt"
    /\ Record("REMOVEALL", <<ans>>)
    /\ LET m == IF Confirms(ans) THEN RemoveAllAddresses(map) ELSE map
           r == IF ans = EndOfInput
                THEN [map |-> m, err |-> FALSE]
                ELSE RemoveAddresses(m, <<>>, strictUnmap)
       IN  /\ map' = r.map
           /\ raised' = IF r.err THEN "ValueError" ELSE "none"
    /\ out' = <<Line("AreYouSure", "", 0)>>
    /\ UNCHANGED pc
    /\ ConfigUnchanged
    /\ ServerUnchanged
    /\ NetUnchanged
    /\ NoSend

\* SERVER LIST
ServerList ==
    /\ pc = "prompt"
    /\ Record("LIST", <<>>)
    /\ raised' = "none"
    /\ out' = ListOutput(map)
    /\ UNCHANGED <<pc, map>>
    /\ ConfigUnchanged
    /\ ServerUnchanged
    /\ NetUnchanged
    /\ NoSend

\* serve_forever(): "while not self.__shutdown_request" decides whether the loop runs.
LoopRuns(flag) == ~flag

\* SERVER SERVE: __start_server up to the point where serve_forever blocks, or,
\* when the loop does not run, through its finally clause and back to the prompt.
ServerServe ==
    /\ pc = "prompt"
    /\ Record("SERVE", <<>>)
    /\ raised' = "none"
    /\ out' = <<ServerInfo(host, port)>>
    /\ IF LoopRuns(shutdown_request)
       THEN /\ pc' = "serving"
            /\ is_shut_down' = FALSE
            /\ UNCHANGED shutdown_request
       ELSE /\ pc' = "prompt"
            /\ shutdown_request' = FALSE
            /\ is_shut_down' = TRUE
    /\ UNCHANGED <<map, sock, strictUnmap>>
    /\ ConfigUnchanged
    /\ NetUnchanged
    /\ NoSend

\* BaseServer.shutdown(): self.__shutdown_request = True, then wait for the event.
\* The flag it leaves behind.
FlagAfterShutdown == TRUE

\* The socket after the except clause: shutdown() does not close it, and
\* server_close() is not called.
SocketAfterShutdown(s) == s

\* KeyboardInterrupt while serve_forever blocks: its finally clause clears the
\* flag and sets the event; the except clause prints and calls shutdown(), whose
\* wait returns at once because the event is set.
Interrupt ==
    /\ pc = "serving"
    /\ out' = Append(out, Line("Stopping", "", 0))
    /\ shutdown_request' = FlagAfterShutdown
    /\ is_shut_down' = TRUE
    /\ sock' = SocketAfterShutdown(sock)
    /\ pc' = "prompt"
    /\ UNCHANGED <<map, strictUnmap, raised, last>>
    /\ ConfigUnchanged
    /\ NetUnchanged
    /\ UNCHANGED sent

----------------------------------------------------------------------------
(* do_send *)

\* Hosts that are address literals need no name resolution.
IsLiteralHost(h) == h \in {"127.0.0.1", "0.0.0.0"}

\* OscMessageBuilder.add_arg(val) with no type given: a str is sent with tag "s".
OscArgs(values) == [i \in DOMAIN values |-> [tag |-> "s", val |-> values[i]]]

\* A client that sends to the address the server was constructed with.
DestinationDefault(h, p) == [host |-> DefaultHost, port |-> DefaultPort]

\* SimpleUDPClient(self.__host, self.__port)
Destination(h, p) == [host |-> h, port |-> p]

\* client.send_message(address, messages): one message, one sendto().
Datagram(h, p, address, values) ==
    [to |-> Destination(h, p), address |-> address, args |-> OscArgs(values)]

\* SEND: fewer than two arguments is a usage error. Otherwise the address and the
\* values are printed and the client is built and used; a host that does not
\* resolve raises socket.gaierror, which the shell catches and prints.
DoSend(args) ==
    /\ pc = "prompt"
    /\ Record("SEND", args)
    /\ IF Len(args) < 2
       THEN /\ out' = <<Line("Usage", "SEND", 0)>>
            /\ raised' = "none"
            /\ sent' = <<>>
       ELSE \E resolves \in (IF IsLiteralHost(host) THEN {TRUE} ELSE BOOLEAN) :
               IF resolves
               THEN /\ out' = <<Line("SendAddress", args[1], 0),
                                Line("SendMessages", "", Len(args) - 1)>>
                    /\ raised' = "none"
                    /\ sent' = <<Datagram(host, port, args[1], Tail(args))>>
               ELSE /\ out' = <<Line("SendAddress", args[1], 0),
                                Line("SendMessages", "", Len(args) - 1),
                                Line("Exception", "gaierror", 0)>>
                    /\ raised' = "gaierror"
                    /\ sent' = <<>>
    /\ UNCHANGED <<pc, map, rcvbuf, workers, printed, nextSeq, handled>>
    /\ ConfigUnchanged
    /\ ServerUnchanged

SendTokens == {"/foo", "bar"}
SendArgs == UNION {SeqOfLen(SendTokens, n) : n \in 0..MaxSend}

----------------------------------------------------------------------------
(* The serving side: the socket's receive buffer, the request threads of        *)
(* ThreadingOSCUDPServer and Dispatcher.handlers_for_address                    *)

\* The characters of the addresses used.
AddrChars(a) ==
    CASE a = "/a" -> <<"/", "a">>
      [] a = "/*" -> <<"/", "*">>
      [] a = "/b" -> <<"/", "b">>
      [] a = "/c" -> <<"/", "c">>
      [] a = "/d" -> <<"/", "d">>

WordChars == {"a", "b", "c", "d"}
AnyChars == WordChars \cup {"/", "*", "?", "|", "+"}

Lit(c) == [kind |-> "lit", set |-> {c}]
Opt(S) == [kind |-> "opt", set |-> S]
Star(S) == [kind |-> "star", set |-> S]

\* re.match of a pattern made of literals, optional classes and starred classes;
\* full = TRUE when the pattern ends in "$".
RECURSIVE MatchTokens(_, _, _)
MatchTokens(toks, s, full) ==
    IF toks = <<>> THEN (full => s = <<>>)
    ELSE LET t    == Head(toks)
             eats == s # <<>> /\ Head(s) \in t.set
         IN  CASE t.kind = "lit"  -> eats /\ MatchTokens(Tail(toks), Tail(s), full)
               [] t.kind = "opt"  -> \/ MatchTokens(Tail(toks), s, full)
                                     \/ eats /\ MatchTokens(Tail(toks), Tail(s), full)
               [] t.kind = "star" -> \/ MatchTokens(Tail(toks), s, full)
                                     \/ eats /\ MatchTokens(toks, Tail(s), full)

\* The message's address as a regexp: re.escape, then "?" becomes \w? and "*"
\* becomes [\w|\+]*, then "$".
RECURSIVE MessagePattern(_)
MessagePattern(cs) ==
    IF cs = <<>> THEN <<>>
    ELSE <<(CASE Head(cs) = "?" -> Opt(WordChars)
              [] Head(cs) = "*" -> Star(WordChars \cup {"|", "+"})
              [] OTHER -> Lit(Head(cs)))>> \o MessagePattern(Tail(cs))

\* A registered address holding "*" as a regexp: addr.replace('*', '[^/]*?/*').
RECURSIVE KeyPattern(_)
KeyPattern(cs) ==
    IF cs = <<>> THEN <<>>
    ELSE (IF Head(cs) = "*"
          THEN <<Star(AnyChars \ {"/"}), Star({"/"})>>
          ELSE <<Lit(Head(cs))>>) \o KeyPattern(Tail(cs))

\* A lookup that finds no key.
MatchesNothing(pattern, addr) == FALSE

\* The test of handlers_for_address for one key of _map.
Matches(pattern, addr) ==
    \/ MatchTokens(MessagePattern(AddrChars(pattern)), AddrChars(addr), TRUE)
    \/ /\ InSeq(AddrChars(addr), "*")
       /\ MatchTokens(KeyPattern(AddrChars(addr)), AddrChars(pattern), FALSE)

\* handlers_for_address: the handlers of every matching key, in dict order.
RECURSIVE HandlersFor(_, _, _)
HandlersFor(m, pattern, k) ==
    IF k > Len(m) THEN <<>>
    ELSE (IF Matches(pattern, m[k].addr) THEN m[k].handlers ELSE <<>>)
         \o HandlersFor(m, pattern, k + 1)

\* The lines __format_osc_message prints for one message: one per handler called.
SinkLines(d, n) == [i \in 1..n |-> d]

MsgAddresses == Addresses

\* A datagram from the sender reaches the bound socket and waits in its buffer.
Arrive(a) ==
    /\ sock.open
    /\ pc \in {"prompt", "serving"}
    /\ nextSeq <= MaxMsgs
    /\ rcvbuf' = Append(rcvbuf, [seq |-> nextSeq, addr |-> a])
    /\ nextSeq' = nextSeq + 1
    /\ UNCHANGED <<pc, port, host, map, sock, shutdown_request, is_shut_down,
                   strictUnmap, out, raised, last, sent, workers, printed, handled>>

\* One turn of the serve_forever loop: the next datagram is read and handed to a
\* new request thread (ThreadingMixIn.process_request).
Receive ==
    /\ pc = "serving"
    /\ rcvbuf # <<>>
    /\ workers' = workers \cup {Head(rcvbuf)}
    /\ rcvbuf' = Tail(rcvbuf)
    /\ UNCHANGED <<pc, port, host, map, sock, shutdown_request, is_shut_down,
                   strictUnmap, out, raised, last, sent, printed, nextSeq, handled>>

\* A request thread runs: call_handlers_for_packet looks the address up in _map
\* and invokes each handler found. shutdown() does not join these threads, so one
\* may still run when the shell is back at its prompt.
WorkerRun(w) ==
    /\ w \in workers
    /\ LET calls == Len(HandlersFor(map, w.addr, 1))
       IN  /\ printed' = printed \o SinkLines(w, calls)
           /\ handled' = [seq |-> w.seq, addr |-> w.addr, calls |-> calls,
                          map |-> map, serving |-> (pc = "serving")]
    /\ workers' = workers \ {w}
    /\ UNCHANGED <<pc, port, host, map, sock, shutdown_request, is_shut_down,
                   strictUnmap, out, raised, last, sent, rcvbuf, nextSeq>>

----------------------------------------------------------------------------
PortArgs == {<<>>} \cup {<<t>> : t \in PortTokens}
HostArgs == {<<>>} \cup {<<h>> : h \in Hosts \cup {DefaultHost}}
Singles == SeqOfLen(Addresses, 1)

\* The history kept for the properties: one command deep (prev stays empty), or
\* two commands deep.
OneDeep(A) == A /\ UNCHANGED prev
TwoDeep(A) == A /\ prev' = last

\* The registry commands, on batches of addresses
NextRegistry ==
    \/ OneDeep(Construct)
    \/ OneDeep(ServerUsage)
    \/ OneDeep(ServerAddUsage)
    \/ \E addresses \in Batches : OneDeep(ServerAdd(addresses))
    \/ \E addresses \in Batches : OneDeep(ServerRemove(addresses))
    \/ \E ans \in Answers : OneDeep(ServerRemoveAll(ans))
    \/ OneDeep(ServerList)

\* The registry commands on one address at a time, remembering two commands
NextPairs ==
    \/ OneDeep(Construct)
    \/ TwoDeep(ServerAddUsage)
    \/ \E addresses \in Singles : TwoDeep(ServerAdd(addresses))
    \/ \E addresses \in Singles : TwoDeep(ServerRemove(addresses))
    \/ \E ans \in Answers : TwoDeep(ServerRemoveAll(ans))
    \/ TwoDeep(ServerList)

\* The configuration and server commands
NextServer ==
    \/ OneDeep(Construct)
    \/ \E args \in PortArgs : OneDeep(DoPort(args))
    \/ \E args \in HostArgs : OneDeep(DoHost(args))
    \/ OneDeep(ServerServe)
    \/ OneDeep(Interrupt)
    \/ OneDeep(DoQuit)

Next ==
    \/ NextRegistry
    \/ \E args \in PortArgs : OneDeep(DoPort(args))
    \/ \E args \in HostArgs : OneDeep(DoHost(args))
    \/ OneDeep(ServerServe)
    \/ OneDeep(Interrupt)
    \/ OneDeep(DoQuit)

\* The shell's commands around the configuration
NextShell ==
    \/ OneDeep(Construct)
    \/ \E addresses \in Singles : OneDeep(ServerAdd(addresses))
    \/ \E args \in PortArgs : OneDeep(DoPort(args))
    \/ \E args \in HostArgs : OneDeep(DoHost(args))
    \/ \E args \in SendArgs : OneDeep(DoSend(args))
    \/ OneDeep(DoQuit)

\* Serving: registrations, the server's sessions, and the datagrams in between
NextNet ==
    \/ OneDeep(Construct)
    \/ \E addresses \in Singles : OneDeep(ServerAdd(addresses))
    \/ OneDeep(ServerServe)
    \/ OneDeep(Interrupt)
    \/ \E a \in MsgAddresses : OneDeep(Arrive(a))
    \/ OneDeep(Receive)
    \/ \E w \in workers : OneDeep(WorkerRun(w))

\* One serving session: what is registered before it, and the datagrams it handles
NextDispatch ==
    \/ OneDeep(Construct)
    \/ \E addresses \in Singles : OneDeep(ServerAdd(addresses))
    \/ \E addresses \in Singles : OneDeep(ServerRemove(addresses))
    \/ OneDeep(ServerServe)
    \/ \E a \in MsgAddresses : OneDeep(Arrive(a))
    \/ OneDeep(Receive)
    \/ \E w \in workers : OneDeep(WorkerRun(w))

Spec == Init /\ [][Next]_vars
SpecNet == Init /\ [][NextNet]_vars
SpecDispatch == Init /\ [][NextDispatch]_vars
SpecShell == Init /\ [][NextShell]_vars
SpecRegistry == Init /\ [][NextRegistry]_vars
SpecPairs == Init /\ [][NextPairs]_vars
SpecServer == Init /\ [][NextServer]_vars

----------------------------------------------------------------------------
(* Properties *)

\* An address is registered when a handler is mapped to it.
Registered(m, a) == HandlersOf(m, a) # <<>>

\* How many lines of a LIST output print address a.
CountListed(o, a) == Cardinality({i \in DOMAIN o : o[i].k = "Address" /\ o[i].a = a})

AddedAlone(c, a) == c.cmd = "ADD" /\ c.args = <<a>>
RemovedAlone(c, a) == c.cmd = "REMOVE" /\ c.args = <<a>>
RemovedAll(c) == c.cmd = "REMOVEALL" /\ Confirms(c.args[1])

\* C1: for every address a with no handler registered, SERVER ADD a followed by
\* SERVER LIST prints a exactly once.
C1_AddThenListOnce ==
    \A a \in Addresses :
        (last.cmd = "LIST" /\ AddedAlone(prev, a) /\ ~Registered(prev.pre.map, a))
            => CountListed(out, a) = 1

\* C1 witness: LIST right after the ADD of an address that was not a key, next
\* to an address that already was.
C1_Witness ==
    \E a \in Addresses :
        /\ last.cmd = "LIST" /\ AddedAlone(prev, a)
        /\ ~HasKey(prev.pre.map, a) /\ prev.pre.map # <<>>
        /\ CountListed(out, a) = 1

\* C2: for every registered address a, SERVER ADD a leaves the registry as it was
\* and prints "already in use" for a, and a LIST after it prints a exactly once.
C2_AddAgainNoChange ==
    \A a \in Addresses :
        /\ (AddedAlone(last, a) /\ Registered(last.pre.map, a))
              => /\ map = last.pre.map
                 /\ out = <<Line("InUse", a, 0)>>
        /\ (last.cmd = "LIST" /\ AddedAlone(prev, a) /\ Registered(prev.pre.map, a))
              => /\ map = prev.pre.map
                 /\ CountListed(out, a) = 1

\* C2 witness: LIST after the second ADD of a registered address.
C2_Witness ==
    \E a \in Addresses :
        /\ last.cmd = "LIST" /\ AddedAlone(prev, a) /\ Registered(prev.pre.map, a)
        /\ CountListed(out, a) = 1 /\ HandlersOf(map, a) = <<Sink>>

\* C3 (as claimed): SERVER REMOVE a of an address with no handler registered
\* raises no error and leaves the registry, and what LIST would print, unchanged.
C3_RemoveAbsentIdempotent ==
    \A a \in Addresses :
        (RemovedAlone(last, a) /\ ~Registered(last.pre.map, a))
            => /\ raised = "none"
               /\ map = last.pre.map
               /\ ListOutput(map) = ListOutput(last.pre.map)

\* C4 (as claimed): SERVER REMOVE answered y, then SERVER LIST, prints the
\* no-handlers message and no address.
C4_RemoveAllThenListEmpty ==
    (last.cmd = "LIST" /\ RemovedAll(prev))
        => out = <<Line("NoHandlers", "", 0)>>

\* C5 (as claimed): every key of the registry has a non-empty handler list, and
\* what LIST prints is the registered addresses only.
C5_KeysHaveHandlers ==
    /\ \A i \in DOMAIN map : map[i].handlers # <<>>
    /\ last.cmd = "LIST" => \A a \in Addresses : CountListed(out, a) > 0 => Registered(map, a)

\* C6 (as claimed): while serving, the socket is bound to the configured host and
\* port, which are the ones the Starting line reports.
C6_ServesOnConfiguredAddress ==
    pc = "serving"
        => /\ sock.open
           /\ sock.host = host /\ sock.port = port
           /\ out[1] = ServerInfo(sock.host, sock.port)

\* Whether the Stopping line of the except clause was printed by the last command.
Interrupted == Len(out) > 0 /\ out[Len(out)].k = "Stopping"

\* C7 (as claimed): SERVER SERVE returns to the prompt only through an interrupt,
\* whichever session it is.
C7_ServeBlocksUntilInterrupt ==
    (last.cmd = "SERVE" /\ pc = "prompt") => Interrupted

\* C8 (as claimed): back at the prompt after an interrupted session, no socket
\* stays bound.
C8_SocketReleasedAfterInterrupt ==
    (last.cmd = "SERVE" /\ pc = "prompt" /\ Interrupted) => ~sock.open

\* C9 (as claimed): a failed bind is reported and the shell stays ready for the
\* next command.
C9_BindFailureKeepsShell ==
    raised = "OSError" => pc = "prompt"

InRange(n) == PortMin <= n /\ n <= PortMax

PortRejected == out[1].k \in {"InvalidPort", "PortNotInteger"}

\* C10: the port is always in [4096, 65535]; PORT n sets the port to n exactly
\* when n parses as an integer in that range, both bounds included, and any other
\* argument is reported and leaves the port as it was.
C10_PortValidated ==
    /\ InRange(port)
    /\ (last.cmd = "PORT" /\ last.args # <<>>)
          => LET r == PyInt(last.args[1])
             IN  IF r.ok /\ InRange(r.val)
                 THEN port = r.val /\ out = <<Line("SetPort", "", r.val)>>
                 ELSE port = last.pre.port /\ PortRejected
    /\ (last.cmd = "PORT" /\ last.args = << <<"4","0","9","6">> >>) => port = 4096
    /\ (last.cmd = "PORT" /\ last.args = << <<"6","5","5","3","5">> >>) => port = 65535
    /\ (last.cmd = "PORT" /\ last.args \in { << <<"4","0","9","5">> >>, << <<"6","5","5","3","6">> >> })
          => port = last.pre.port /\ out[1].k = "InvalidPort"
    /\ (last.cmd = "PORT" /\ last.args = << <<"a","b","c">> >>)
          => port = last.pre.port /\ out[1].k = "PortNotInteger"

\* C10 witness: both bounds accepted one after the other.
C10_Witness ==
    /\ last.cmd = "PORT" /\ last.args = << <<"4","0","9","6">> >>
    /\ last.pre.port = PortMax /\ port = PortMin

\* C11: PORT and HOST without an argument print the current value and change
\* neither host, port nor registry; HOST h sets the host to h, whatever string h
\* is, and changes neither port nor registry.
C11_ConfigFrame ==
    /\ (last.cmd = "PORT" /\ last.args = <<>>)
          => /\ out = <<Line("Port", "", last.pre.port)>>
             /\ State(map, port, host) = last.pre
    /\ (last.cmd = "HOST" /\ last.args = <<>>)
          => /\ out = <<Line("Host", last.pre.host, 0)>>
             /\ State(map, port, host) = last.pre
    /\ (last.cmd = "HOST" /\ last.args # <<>>)
          => /\ host = last.args[1]
             /\ port = last.pre.port
             /\ map = last.pre.map

\* C11 witness: HOST with a string that is no address, on a shell whose port and
\* registry are not the initial ones.
C11_Witness ==
    /\ last.cmd = "HOST" /\ last.args = <<"bogus">> /\ host = "bogus"
    /\ last.pre.host # "bogus"
    /\ port # DefaultPort /\ map # <<>>

\* The one datagram SEND addr v1..vn is to put on the wire.
ExpectedDatagram(c) ==
    [to |-> [host |-> c.pre.host, port |-> c.pre.port],
     address |-> c.args[1],
     args |-> [i \in 1..(Len(c.args) - 1) |-> [tag |-> "s", val |-> c.args[i + 1]]]]

\* C12 (as claimed): SEND with fewer than two arguments prints the usage and sends
\* nothing; any other SEND sends exactly one datagram, to the configured host and
\* port, with the address and the values in order.
C12_SendExactlyOne ==
    last.cmd = "SEND"
        => IF Len(last.args) < 2
           THEN sent = <<>> /\ out = <<Line("Usage", "SEND", 0)>>
           ELSE sent = <<ExpectedDatagram(last)>>

\* C12 (amended): as above when the configured host resolves; when it does not,
\* the SEND puts nothing on the wire and the error reaches the shell.
C12_SendOneWhenHostResolves ==
    last.cmd = "SEND"
        => IF Len(last.args) < 2
           THEN sent = <<>> /\ out = <<Line("Usage", "SEND", 0)>> /\ raised = "none"
           ELSE IF raised = "none"
           THEN sent = <<ExpectedDatagram(last)>>
           ELSE /\ sent = <<>>
                /\ raised = "gaierror"
                /\ ~IsLiteralHost(last.pre.host)

\* C12 witness: a SEND of two values to a reconfigured host and port.
C12_Witness ==
    /\ last.cmd = "SEND" /\ Len(last.args) = 3
    /\ last.pre.host = "0.0.0.0" /\ last.pre.port = 9000
    /\ Len(sent) = 1 /\ sent[1].to = [host |-> "0.0.0.0", port |-> 9000]
    /\ Len(sent[1].args) = 2

\* Whether the batch entry at position i was registered when the loop reached
\* it: before the command, or by an earlier entry of the batch.
RegisteredWhenReached(m, addresses, i) ==
    \/ Registered(m, addresses[i])
    \/ \E j \in 1..(i - 1) : addresses[j] = addresses[i]

\* The "already in use" lines due for a batch, in batch order.
RECURSIVE InUseLines(_, _, _)
InUseLines(m, addresses, i) ==
    IF i > Len(addresses) THEN <<>>
    ELSE (IF RegisteredWhenReached(m, addresses, i)
          THEN <<Line("InUse", addresses[i], 0)>> ELSE <<>>)
         \o InUseLines(m, addresses, i + 1)

\* C13 (as claimed): after SERVER ADD of a batch every address of the batch has
\* exactly one handler, and "already in use" is printed once for each entry that
\* was registered when it was reached.
C13_BatchAddRegistersAll ==
    (last.cmd = "ADD" /\ last.args # <<>>)
        => /\ \A i \in DOMAIN last.args : HandlersOf(map, last.args[i]) = <<Sink>>
           /\ out = InUseLines(last.pre.map, last.args, 1)

InBatch(c, a) == \E i \in DOMAIN c.args : c.args[i] = a

\* C14 (as claimed): SERVER REMOVE of addresses unregisters exactly those and
\* leaves every other registration as it was; with no address it empties the
\* registry on the answer y and changes nothing on any other answer.
C14_RemoveFrame ==
    /\ last.cmd = "REMOVE"
          => \A a \in Addresses :
                Registered(map, a) <=> (Registered(last.pre.map, a) /\ ~InBatch(last, a))
    /\ last.cmd = "REMOVEALL"
          => IF Confirms(last.args[1])
             THEN \A a \in Addresses : ~Registered(map, a)
             ELSE map = last.pre.map

\* C19 (as claimed): SERVER ADD a right after SERVER REMOVE a, or after a
\* confirmed remove-all, registers the handler for a and prints nothing.
C19_AddAfterRemove ==
    \A a \in Addresses :
        (AddedAlone(last, a) /\ (RemovedAlone(prev, a) \/ RemovedAll(prev)))
            => /\ HandlersOf(map, a) = <<Sink>>
               /\ out = <<>>

\* C20: every address has at most one handler, the message sink, and after a
\* confirmed remove-all no address has a handler left.
C20_OneSinkPerAddress ==
    /\ \A i \in DOMAIN map :
          /\ Len(map[i].handlers) <= 1
          /\ \A j \in DOMAIN map[i].handlers : map[i].handlers[j] = Sink
    /\ RemovedAll(last) => \A i \in DOMAIN map : map[i].handlers = <<>>

\* C20 witness: a confirmed remove-all of a registry with two registered addresses.
C20_Witness ==
    /\ RemovedAll(last)
    /\ Cardinality({a \in Addresses : Registered(last.pre.map, a)}) >= 2
    /\ \A a \in Addresses : ~Registered(map, a)

\* C16 (as claimed): the program stops only through QUIT; after any other command
\* or failure the shell is at its prompt again (or serving, until the interrupt).
C16_OnlyQuitEnds ==
    /\ pc \in {"quit", "crashed"} => last.cmd = "QUIT"
    /\ last.cmd = "QUIT" => pc = "quit"
    /\ last.cmd \notin {"NONE", "QUIT", "SERVE"} => pc = "prompt"
    /\ last.cmd = "SERVE" => pc \in {"serving", "prompt"}

\* The server is listening or a request thread has not finished.
Busy == pc = "serving" \/ workers # {}

\* C15: from the start of listening until the last request thread in flight has
\* finished, the registry, the port and the host do not change.
C15_NoMutationWhileBusy == [][Busy => UNCHANGED <<map, port, host>>]_vars

\* C17: the lines printed by the sink appear in the order in which the
\* datagrams of the one sender were received.
C17_PrintedInReceiptOrder ==
    \A i, j \in DOMAIN printed : i < j => printed[i].seq <= printed[j].seq

IsLiteral(a) == \A i \in DOMAIN AddrChars(a) : AddrChars(a)[i] \notin {"*", "?"}
AllLiteral(m) == \A k \in DOMAIN m : IsLiteral(m[k].addr)
Dispatched == handled # NoDispatch /\ handled.serving
SinkCallsDue(d) == IF Registered(d.map, d.addr) THEN 1 ELSE 0

=============================================================================
